---- MODULE Spec2Model ----
(***************************************************************************)
(* Model of ip4p_301 (src/ip4p_301.go): the IP4P decoder (expandIPv6,      *)
(* parseIP4P) and the redirect handler (redirectHandler, resolveAAAA).     *)
(* Texts are strings; the Go library calls the code makes (strings.Split,  *)
(* strings.Contains, strings.TrimPrefix, strconv.ParseInt, fmt.Sprintf     *)
(* with %d) are operators that compute what the calls compute.             *)
(***************************************************************************)
EXTENDS Integers, Sequences, FiniteSets, TLC

VARIABLES
    Mappings,      \* config.Mappings: sequence of [UUID, Domain]
    pc,            \* per request: position in redirectHandler
    uuid,          \* per request: uuid local of the handler
    targetDomain,  \* per request: targetDomain local of the handler
    ips,           \* per request: what net.LookupHost returned
    ip4p,          \* per request: the address resolveAAAA selected
    resp,          \* per request: the responses written to the client
    addr,          \* decoder run: the text handed to parseIP4P
    given,         \* decoder run: how the text in addr was built
    dec,           \* decoder run: what parseIP4P returned
    phase          \* decoder run: "input" before the call, "done" after

vars == <<Mappings, pc, uuid, targetDomain, ips, ip4p, resp, addr, given, dec, phase>>

routerVars == <<Mappings, pc, uuid, targetDomain, ips, ip4p, resp>>

decoderVars == <<addr, given, dec, phase>>

----------------------------------------------------------------------------
(* Go strings *)

Char(s, i) == SubSeq(s, i, i)

HasPrefix(s, p) == Len(s) >= Len(p) /\ SubSeq(s, 1, Len(p)) = p

\* strings.Index, 1-based; 0 when sep does not occur in s
RECURSIVE IndexFrom(_, _, _)
IndexFrom(s, sep, i) ==
    IF i + Len(sep) - 1 > Len(s) THEN 0
    ELSE IF SubSeq(s, i, i + Len(sep) - 1) = sep THEN i
    ELSE IndexFrom(s, sep, i + 1)

Index(s, sep) == IndexFrom(s, sep, 1)

Contains(s, sep) == Index(s, sep) # 0

TrimPrefix(s, p) == IF HasPrefix(s, p) THEN SubSeq(s, Len(p) + 1, Len(s)) ELSE s

RECURSIVE Split(_, _)
Split(s, sep) ==
    LET m == Index(s, sep)
    IN  IF m = 0 THEN <<s>>
        ELSE <<SubSeq(s, 1, m - 1)>> \o Split(SubSeq(s, m + Len(sep), Len(s)), sep)

----------------------------------------------------------------------------
(* strconv.ParseInt(s, 16, 32) and fmt's %d *)

Base == 16

MaxInt32 == 2147483647

DecimalDigits == <<"0", "1", "2", "3", "4", "5", "6", "7", "8", "9">>

LowerLetters == <<"a", "b", "c", "d", "e", "f", "g", "h", "i", "j", "k", "l", "m",
                  "n", "o", "p", "q", "r", "s", "t", "u", "v", "w", "x", "y", "z">>

UpperLetters == <<"A", "B", "C", "D", "E", "F", "G", "H", "I", "J", "K", "L", "M",
                  "N", "O", "P", "Q", "R", "S", "T", "U", "V", "W", "X", "Y", "Z">>

\* the digit value ParseUint gives each digit byte
DigitTable ==
    [c \in {DecimalDigits[i] : i \in 1..10} |->
        (CHOOSE i \in 1..10 : DecimalDigits[i] = c) - 1]
    @@ [c \in {LowerLetters[i] : i \in 1..26} |->
        (CHOOSE i \in 1..26 : LowerLetters[i] = c) - 1 + 10]
    @@ [c \in {UpperLetters[i] : i \in 1..26} |->
        (CHOOSE i \in 1..26 : UpperLetters[i] = c) - 1 + 10]

DigitChars == DOMAIN DigitTable

\* -1 for a byte that is no digit
DigitVal(c) == IF c \in DigitChars THEN DigitTable[c] ELSE -1

\* ParseUint's digit loop from byte i on.  n is the value so far; big is 0
\* while the value is at most MaxInt32, 1 when it is exactly MaxInt32 + 1,
\* 2 when it is larger.
RECURSIVE ParseUintFrom(_, _, _, _)
ParseUintFrom(s, i, n, big) ==
    IF i > Len(s) THEN [err |-> "nil", n |-> n, big |-> big]
    ELSE LET d == DigitVal(Char(s, i))
         IN  IF d < 0 \/ d >= Base THEN [err |-> "syntax", n |-> 0, big |-> 0]
             ELSE IF big > 0 THEN ParseUintFrom(s, i + 1, 0, 2)
             ELSE IF n > (MaxInt32 - d) \div Base
                  THEN ParseUintFrom(s, i + 1, 0,
                                     IF n = (MaxInt32 \div Base) + 1 /\ d = 0 THEN 1 ELSE 2)
             ELSE ParseUintFrom(s, i + 1, n * Base + d, 0)

ParseUint(s) ==
    IF s = "" THEN [err |-> "syntax", n |-> 0, big |-> 0]
    ELSE ParseUintFrom(s, 1, 0, 0)

\* strconv.ParseInt(s, 16, 32): [err, n]
ParseInt(s) ==
    IF s = "" THEN [err |-> "syntax", n |-> 0]
    ELSE LET c0   == Char(s, 1)
             neg  == c0 = "-"
             rest == IF c0 = "+" \/ c0 = "-" THEN SubSeq(s, 2, Len(s)) ELSE s
             un   == ParseUint(rest)
         IN  IF un.err = "syntax" THEN [err |-> "syntax", n |-> 0]
             ELSE IF ~neg /\ un.big >= 1 THEN [err |-> "range", n |-> MaxInt32]
             ELSE IF neg /\ un.big > 1 THEN [err |-> "range", n |-> -MaxInt32 - 1]
             ELSE IF neg /\ un.big = 1 THEN [err |-> "nil", n |-> -MaxInt32 - 1]
             ELSE [err |-> "nil", n |-> IF neg THEN -un.n ELSE un.n]

\* decimal digits of n <= 0, most significant first ("" for 0)
RECURSIVE NegDigits(_)
NegDigits(n) ==
    IF n = 0 THEN ""
    ELSE LET d == (10 - (n % 10)) % 10
         IN  NegDigits((n + d) \div 10) \o DecimalDigits[d + 1]

\* fmt's %d verb
FormatInt(n) ==
    IF n = 0 THEN "0"
    ELSE IF n < 0 THEN "-" \o NegDigits(n)
    ELSE NegDigits(-n)

----------------------------------------------------------------------------
(* The decoder *)

HextetCount == 8

HextetWidth == 4

MaxPort == 65535

RECURSIVE Zeros(_)
Zeros(k) == IF k <= 0 THEN "" ELSE "0:" \o Zeros(k - 1)

\* expandIPv6 counting one hextet too many as present
expandIPv6Short(ipv6) ==
    LET parts == Split(ipv6, "::")
    IN  IF Len(parts) < 2 THEN [panic |-> TRUE, expanded |-> ""]
        ELSE LET left    == Split(parts[1], ":")
                 right   == Split(parts[2], ":")
                 missing == HextetCount - 1 - (Len(left) + Len(right))
             IN  [panic |-> FALSE,
                  expanded |-> parts[1] \o ":" \o Zeros(missing) \o parts[2]]

\* expandIPv6: indexing parts[1] of a one-element slice is a run-time panic
expandIPv6(ipv6) ==
    LET parts == Split(ipv6, "::")
    IN  IF Len(parts) < 2 THEN [panic |-> TRUE, expanded |-> ""]
        ELSE LET left    == Split(parts[1], ":")
                 right   == Split(parts[2], ":")
                 missing == HextetCount - (Len(left) + Len(right))
             IN  [panic |-> FALSE,
                  expanded |-> parts[1] \o ":" \o Zeros(missing) \o parts[2]]

\* PadLeft padding on the wrong side
PadRight(h) == h \o SubSeq("0000", 1, HextetWidth - Len(h))

RECURSIVE PadLeft(_)
PadLeft(h) == IF Len(h) < HextetWidth THEN PadLeft("0" \o h) ELSE h

Failed(msg) == [status |-> "err", err |-> msg, ip |-> "", port |-> 0]

Panicked == [status |-> "panic", err |-> "index out of range", ip |-> "", port |-> 0]

\* parseIP4P: [status, err, ip, port]
parseIP4P(text) ==
    LET e == expandIPv6(text)
    IN  IF e.panic THEN Panicked
        ELSE LET parts == Split(e.expanded, ":")
             IN  IF Len(parts) # HextetCount THEN Failed("invalid IP4P address format")
                 ELSE LET port == ParseInt(parts[6])
                          yyyy == PadLeft(parts[7])
                          zzzz == PadLeft(parts[8])
                          ip1  == ParseInt(SubSeq(yyyy, 1, 2))
                          ip2  == ParseInt(SubSeq(yyyy, 3, Len(yyyy)))
                          ip3  == ParseInt(SubSeq(zzzz, 1, 2))
                          ip4  == ParseInt(SubSeq(zzzz, 3, Len(zzzz)))
                      IN  IF port.err # "nil" THEN Failed("failed to parse port")
                          ELSE IF port.n > MaxPort THEN Failed("invalid port number")
                          ELSE IF ip1.err # "nil" THEN Failed("failed to parse IPv4 first segment")
                          ELSE IF ip2.err # "nil" THEN Failed("failed to parse IPv4 second segment")
                          ELSE IF ip3.err # "nil" THEN Failed("failed to parse IPv4 third segment")
                          ELSE IF ip4.err # "nil" THEN Failed("failed to parse IPv4 fourth segment")
                          ELSE [status |-> "ok", err |-> "nil",
                                ip |-> FormatInt(ip1.n) \o "." \o FormatInt(ip2.n) \o "."
                                       \o FormatInt(ip3.n) \o "." \o FormatInt(ip4.n),
                                port |-> port.n]

----------------------------------------------------------------------------
(* Decoder runs: parseIP4P applied to one address text *)

\* the hex digits of v > 0, most significant first ("" for 0)
RECURSIVE HexDigitsOf(_)
HexDigitsOf(v) ==
    IF v = 0 THEN ""
    ELSE HexDigitsOf(v \div 16)
         \o (IF v % 16 < 10 THEN DecimalDigits[(v % 16) + 1] ELSE LowerLetters[(v % 16) - 9])

\* a hextet of value v as an address text writes it: no leading zeros
ToHex(v) == IF v = 0 THEN "0" ELSE HexDigitsOf(v)

RECURSIVE ZeroFill(_, _)
ZeroFill(h, w) == IF Len(h) < w THEN ZeroFill("0" \o h, w) ELSE h

RECURSIVE Join(_, _)
Join(hs, sep) ==
    IF Len(hs) = 0 THEN ""
    ELSE IF Len(hs) = 1 THEN hs[1]
    ELSE hs[1] \o sep \o Join(Tail(hs), sep)

HexSeq(vals) == [i \in 1..Len(vals) |-> ToHex(vals[i])]

\* the text of the 8 hextets vals with the run of `run` hextets from `start` elided
Compress(vals, start, run) ==
    Join(HexSeq(SubSeq(vals, 1, start - 1)), ":") \o "::"
    \o Join(HexSeq(SubSeq(vals, start + run, Len(vals))), ":")

MaxPrefix == 3

HeadVals == {0, 8193}

TailVals == {0, 15, 7100, 65535}

OctetVals == {0, 1, 15, 16, 255, 256, 4095, 4096, 4272, 8222, 43981, 65280, 65535}

PortVals == {0, 1, 80, 443, 7100, 32768, 65535}

OddPortTexts ==
    {"", "g", "1g", "-1", "+1", "-0", "1ffff", "10000", "00001", "7fffffff", "80000000",
     "ffffffff", "123456789", "-80000000", "-80000001", "1_0", "0x10", "1BBC", "1.0"}

OddOctetTexts == {"10b0", "12345", "fffff", "-1ab", "+1ab", "1g", "ab-1"}

NoMarkerTexts ==
    {"2001:0:0:0:0:1bbc:10b0:201e", "2001:1:2:3:4:1bbc:10b0:201e", "1:2:3:4:5:6:7:8",
     "", ":", "1", "1:2", "1.2.3.4", "1:2:3:4:5:6:7:8:9", "2001:0:0:0:0:1bbc:10b0:",
     "fe80:0:0:0:0:g:1:1"}

MultiMarkerTexts ==
    {"1::2::3", "::1::", "::::", "2001::1bbc:10b0:201e::", "2001::1bbc::10b0:201e",
     "1::2:3:4:5:6:7:8::9", "1:2:3:4:5::6:7:8:9::a", "2001::0::1bbc:10b0:201e",
     "::1bbc:10b0:201e::1", "1::2::3::4", "1::2:::3"}

\* every way to write the hextet value v in 1 to 4 hex digits
Forms(v) == {ZeroFill(ToHex(v), w) : w \in Len(ToHex(v))..HextetWidth}

Given(kind, vals, start, run, texts) ==
    [kind |-> kind, vals |-> vals, start |-> start, run |-> run, texts |-> texts]

ValidCompressed(g) ==
    /\ g.start + g.run - 1 <= HextetCount
    /\ \A i \in g.start..(g.start + g.run - 1) : g.vals[i] = 0

\* 0 to MaxPrefix hextets 2001 and the elision marker
Prefixes == {Join([i \in 1..n |-> "2001"], ":") \o "::" : n \in 0..MaxPrefix}

TextOf(g) ==
    IF g.kind = "compressed" THEN Compress(g.vals, g.start, g.run)
    ELSE IF g.kind = "raw" THEN g.texts[1]
    ELSE g.texts[1] \o g.texts[2] \o ":" \o g.texts[3] \o ":" \o g.texts[4]

NoResult == [status |-> "none", err |-> "nil", ip |-> "", port |-> 0]

----------------------------------------------------------------------------
(* The redirect handler *)

NumReq == 2

MaxMappings == 2

Requests == 1..NumReq

UUIDs == {"", "u1"}

Domains == {"", "example.com"}

Paths == {"/", "/u1", "/u3"}

Tables ==
    UNION {[1..n -> [UUID : UUIDs, Domain : Domains]] : n \in 0..MaxMappings}

\* what net.LookupHost can return for a domain: an error or a list of addresses
LookupResults ==
    {[err |-> TRUE, ips |-> <<>>]} \cup
    {[err |-> FALSE, ips |-> l] :
        l \in {<<"2001:0:0:0:0:1bbc:10b0:201e">>,
               <<"2001::1bbc:10b0:201e">>,
               <<"1.2.3.4">>,
               <<"1.2.3.4", "2001::50:a00:1">>,
               <<"2001::1ffff:10b0:201e", "2001::1bbc:10b0:201e">>}}

StatusBadRequest == 400

StatusNotFound == 404

StatusInternalServerError == 500

StatusMovedPermanently == 301

\* http.Error: a response with a status and a plain-text body
HttpError(msg, code) == [code |-> code, body |-> msg, location |-> ""]

\* http.Redirect: a response with a status and a Location header
HttpRedirect(url, code) == [code |-> code, body |-> "", location |-> url]

\* FindDomain matching an entry whose UUID is a prefix of the identifier
RECURSIVE FindDomainPrefix(_, _)
FindDomainPrefix(ms, id) ==
    IF Len(ms) = 0 THEN ""
    ELSE IF HasPrefix(id, ms[1].UUID) THEN ms[1].Domain
    ELSE FindDomainPrefix(Tail(ms), id)

\* the loop over config.Mappings: the Domain of the first entry with this UUID
RECURSIVE FindDomain(_, _)
FindDomain(ms, id) ==
    IF Len(ms) = 0 THEN ""
    ELSE IF ms[1].UUID = id THEN ms[1].Domain
    ELSE FindDomain(Tail(ms), id)

\* the loop of resolveAAAA: the first address containing ":" ("" when none)
RECURSIVE FirstWithColon(_)
FirstWithColon(l) ==
    IF Len(l) = 0 THEN ""
    ELSE IF Contains(l[1], ":") THEN l[1]
    ELSE FirstWithColon(Tail(l))

\* resolveAAAA on a lookup result: [err, ip]
resolveAAAA(res) ==
    IF res.err THEN [err |-> TRUE, ip |-> ""]
    ELSE IF \E i \in 1..Len(res.ips) : Contains(res.ips[i], ":")
         THEN [err |-> FALSE, ip |-> FirstWithColon(res.ips)]
    ELSE [err |-> TRUE, ip |-> ""]

NoLookup == [err |-> FALSE, ips |-> <<>>]

RouterIdle ==
    /\ pc = [r \in Requests |-> "idle"]
    /\ uuid = [r \in Requests |-> ""]
    /\ targetDomain = [r \in Requests |-> ""]
    /\ ips = [r \in Requests |-> NoLookup]
    /\ ip4p = [r \in Requests |-> ""]
    /\ resp = [r \in Requests |-> <<>>]

DecoderIdle ==
    /\ addr = ""
    /\ given = Given("none", <<>>, 0, 0, <<>>)
    /\ dec = NoResult
    /\ phase = "input"

\* main has loaded the configuration; no request has arrived
Init ==
    /\ Mappings \in Tables
    /\ RouterIdle
    /\ DecoderIdle

\* HandlerLookup without the check for an empty identifier
HandlerLookupNoEmptyCheck(ms, id) ==
    IF FindDomain(ms, id) = ""
    THEN [code |-> StatusNotFound, msg |-> "UUID not found", dom |-> ""]
    ELSE [code |-> 0, msg |-> "", dom |-> FindDomain(ms, id)]

\* redirectHandler's checks before it resolves (lines 144-159): the response
\* it writes, or the domain it goes on to resolve
HandlerLookup(ms, id) ==
    IF id = "" THEN [code |-> StatusBadRequest, msg |-> "UUID is required", dom |-> ""]
    ELSE IF FindDomain(ms, id) = ""
    THEN [code |-> StatusNotFound, msg |-> "UUID not found", dom |-> ""]
    ELSE [code |-> 0, msg |-> "", dom |-> FindDomain(ms, id)]

\* redirectHandler up to the call of net.LookupHost (lines 143-161)
Begin(r) ==
    /\ pc[r] = "idle"
    /\ \E path \in Paths :
        LET id == TrimPrefix(path, "/")
            lk == HandlerLookup(Mappings, id)
        IN  /\ uuid' = [uuid EXCEPT ![r] = id]
            /\ IF lk.code # 0
               THEN /\ resp' = [resp EXCEPT ![r] = Append(@, HttpError(lk.msg, lk.code))]
                    /\ pc' = [pc EXCEPT ![r] = "done"]
                    /\ UNCHANGED targetDomain
               ELSE /\ targetDomain' = [targetDomain EXCEPT ![r] = lk.dom]
                    /\ pc' = [pc EXCEPT ![r] = "resolving"]
                    /\ UNCHANGED resp
    /\ UNCHANGED <<Mappings, ips, ip4p>>
    /\ UNCHANGED decoderVars

\* redirectHandler from the return of net.LookupHost on (lines 161-175); a
\* panic in the handler is recovered by net/http, which closes the connection
\* without writing a response
Complete(r) ==
    /\ pc[r] = "resolving"
    /\ \E res \in LookupResults :
        LET a == resolveAAAA(res)
            d == parseIP4P(a.ip)
        IN  /\ ips' = [ips EXCEPT ![r] = res]
            /\ IF a.err
               THEN /\ resp' = [resp EXCEPT ![r] =
                                  Append(@, HttpError("Failed to resolve AAAA record",
                                                      StatusInternalServerError))]
                    /\ pc' = [pc EXCEPT ![r] = "done"]
                    /\ UNCHANGED ip4p
               ELSE /\ ip4p' = [ip4p EXCEPT ![r] = a.ip]
                    /\ IF d.status = "panic"
                       THEN /\ pc' = [pc EXCEPT ![r] = "panicked"]
                            /\ UNCHANGED resp
                       ELSE IF d.status = "err"
                       THEN /\ resp' = [resp EXCEPT ![r] =
                                          Append(@, HttpError("Failed to parse IP4P address",
                                                              StatusInternalServerError))]
                            /\ pc' = [pc EXCEPT ![r] = "done"]
                       ELSE /\ resp' = [resp EXCEPT ![r] =
                                          Append(@, HttpRedirect("https://" \o d.ip \o ":"
                                                                 \o FormatInt(d.port),
                                                                 StatusMovedPermanently))]
                            /\ pc' = [pc EXCEPT ![r] = "done"]
    /\ UNCHANGED <<Mappings, uuid, targetDomain>>
    /\ UNCHANGED decoderVars

Next ==
    \/ \E r \in Requests : Begin(r)
    \/ \E r \in Requests : Complete(r)

Spec == Init /\ [][Next]_vars

\* an 8-hextet value with one run of all-zero hextets elided
CompressedGiven(g) ==
    \E h \in [1..5 -> HeadVals], t \in [1..3 -> TailVals] :
        \E st \in 1..HextetCount, rn \in 1..HextetCount :
            /\ g = Given("compressed", h \o t, st, rn, <<>>)
            /\ ValidCompressed(g)

\* prefix::XXXX:YYYY:ZZZZ with YYYY and ZZZZ each a way to write a 16-bit value
OctetGiven(g) ==
    \E yv \in OctetVals, zv \in OctetVals :
        \E pre \in Prefixes, x \in {"1bbc", "0"}, y \in Forms(yv), z \in Forms(zv) :
            g = Given("octets", <<yv, zv>>, 0, 0, <<pre, x, y, z>>)

\* prefix::XXXX:10b0:201e with any text as XXXX
PortGiven(g) ==
    \E pre \in Prefixes, x \in OddPortTexts \cup UNION {Forms(v) : v \in PortVals} :
        g = Given("port", <<>>, 0, 0, <<pre, x, "10b0", "201e">>)

\* prefix::XXXX:YYYY:ZZZZ with any texts as YYYY and ZZZZ
FieldGiven(g) ==
    \E pre \in Prefixes, x \in {"1bbc", "-1", "g"} :
        \E y \in OddOctetTexts, z \in OddOctetTexts \cup {""} :
            g = Given("fields", <<>>, 0, 0, <<pre, x, y, z>>)

\* a text with no elision marker or with several
RawGiven(g) ==
    \E t \in NoMarkerTexts \cup MultiMarkerTexts : g = Given("raw", <<>>, 0, 0, <<t>>)

\* a decoder run: one address text, not yet decoded
InitDecode ==
    /\ Mappings = <<>>
    /\ RouterIdle
    /\ \/ CompressedGiven(given)
       \/ OctetGiven(given)
       \/ PortGiven(given)
       \/ FieldGiven(given)
       \/ RawGiven(given)
    /\ addr = TextOf(given)
    /\ dec = NoResult
    /\ phase = "input"

\* the call parseIP4P(addr)
Decode ==
    /\ phase = "input"
    /\ dec' = parseIP4P(addr)
    /\ phase' = "done"
    /\ UNCHANGED <<addr, given>>
    /\ UNCHANGED routerVars

NextDecode == Decode

DecodeSpec == InitDecode /\ [][NextDecode]_vars

----------------------------------------------------------------------------
(* Properties *)

Finished(r) == pc[r] \in {"done", "panicked"}

MalformedAddress(d) == d.status = "err" /\ d.err = "invalid IP4P address format"

InvalidPort(d) ==
    d.status = "err" /\ d.err \in {"failed to parse port", "invalid port number"}

HexChars ==
    {"0", "1", "2", "3", "4", "5", "6", "7", "8", "9",
     "a", "b", "c", "d", "e", "f", "A", "B", "C", "D", "E", "F"}

IsHexText(t) == Len(t) >= 1 /\ \A i \in 1..Len(t) : Char(t, i) \in HexChars

\* a hex text longer than 4 digits whose value exceeds 65535
Overlong(t) == IsHexText(t) /\ \E i \in 1..(Len(t) - HextetWidth) : Char(t, i) # "0"

LowerHex == <<"0", "1", "2", "3", "4", "5", "6", "7", "8", "9", "a", "b", "c", "d", "e", "f">>

UpperHex == <<"0", "1", "2", "3", "4", "5", "6", "7", "8", "9", "A", "B", "C", "D", "E", "F">>

Nibble(c) == CHOOSE n \in 0..15 : c = LowerHex[n + 1] \/ c = UpperHex[n + 1]

\* int(t, 16) for a hex text of at most 4 digits
RECURSIVE HexValue(_)
HexValue(t) ==
    IF t = "" THEN 0
    ELSE HexValue(SubSeq(t, 1, Len(t) - 1)) * 16 + Nibble(Char(t, Len(t)))

\* the number of "::" markers in a text
MarkerCount(t) == Len(Split(t, "::")) - 1

\* n in 0..255 in decimal without leading zeros
Decimal(n) ==
    IF n >= 100 THEN DecimalDigits[(n \div 100) + 1] \o DecimalDigits[((n \div 10) % 10) + 1]
                     \o DecimalDigits[(n % 10) + 1]
    ELSE IF n >= 10 THEN DecimalDigits[(n \div 10) + 1] \o DecimalDigits[(n % 10) + 1]
    ELSE DecimalDigits[n + 1]

\* the dotted quad of the 16-bit values yv (octets 1-2) and zv (octets 3-4)
DottedQuad(yv, zv) ==
    Decimal(yv \div 256) \o "." \o Decimal(yv % 256) \o "."
    \o Decimal(zv \div 256) \o "." \o Decimal(zv % 256)

OctetTexts == {Decimal(n) : n \in 0..255}

\* C1: with the table {"u1" -> "example.com"} and a lookup that returns
\* ["2001:0:0:0:0:1bbc:10b0:201e"], a finished request for "u1" has the single
\* response 301 with Location https://16.176.32.30:7100.
C1_Scenario ==
    \A r \in Requests :
        ( /\ Finished(r)
          /\ Mappings = <<[UUID |-> "u1", Domain |-> "example.com"]>>
          /\ uuid[r] = "u1"
          /\ ips[r] = [err |-> FALSE, ips |-> <<"2001:0:0:0:0:1bbc:10b0:201e">>] )
        => resp[r] = <<HttpRedirect("https://16.176.32.30:7100", StatusMovedPermanently)>>

\* C2: parseIP4P of a text with no "::" marker returns the error "invalid IP4P
\* address format" (MalformedAddress) as a value.
C2_NoMarkerFails ==
    (phase = "done" /\ MarkerCount(addr) = 0) => MalformedAddress(dec)

\* C3: every request that has ended has exactly one response, a 301 or an
\* error 400, 404 or 500.
C3_OneOutcome ==
    \A r \in Requests :
        pc[r] \notin {"idle", "resolving"}
        => /\ Len(resp[r]) = 1
           /\ resp[r][1].code \in {StatusMovedPermanently, StatusBadRequest,
                                   StatusNotFound, StatusInternalServerError}

\* C4: parseIP4P of a text with more than one "::" marker fails with
\* MalformedAddress.
C4_MultiMarkerFails ==
    (phase = "done" /\ MarkerCount(addr) > 1) => MalformedAddress(dec)

\* C5: for prefix::XXXX:YYYY:ZZZZ with YYYY and ZZZZ written in 1 to 4 hex
\* digits, parseIP4P succeeds and its IPv4 string is the dotted quad of the
\* high and low bytes of the two 16-bit values, in decimal.
C5_OctetsDecoded ==
    (phase = "done" /\ given.kind = "octets")
    => /\ dec.status = "ok"
       /\ dec.ip = DottedQuad(given.vals[1], given.vals[2])

C5_Witness ==
    /\ phase = "done"
    /\ given.kind = "octets"
    /\ given.texts[3] = "f"
    /\ given.texts[4] = "201e"
    /\ dec.ip = "0.15.32.30"

\* C6: in a text with one "::" marker and XXXX as hextet 5, a 4-digit hex XXXX
\* never fails as a port and decodes to its value; an XXXX that is not hex, or
\* is hex above 65535, fails with InvalidPort.
C6_PortField ==
    (phase = "done" /\ given.kind = "port" /\ MarkerCount(addr) = 1)
    => LET x == given.texts[2]
       IN  /\ (IsHexText(x) /\ Len(x) = HextetWidth)
              => (~InvalidPort(dec) /\ (dec.status = "ok" => dec.port = HexValue(x)))
           /\ (~IsHexText(x) \/ Overlong(x)) => InvalidPort(dec)

C8_NotFound ==
    \A r \in Requests :
        ( /\ pc[r] # "idle"
          /\ uuid[r] # ""
          /\ \A i \in 1..Len(Mappings) : Mappings[i].UUID # uuid[r] )
        => /\ pc[r] = "done"
           /\ resp[r] = <<HttpError("UUID not found", StatusNotFound)>>

C8_Witness ==
    \E r \in Requests :
        /\ pc[r] = "done"
        /\ uuid[r] = "u3"
        /\ Len(Mappings) = 2
        /\ Mappings[1].UUID = ""
        /\ Mappings[1].Domain = "example.com"
        /\ resp[r] = <<HttpError("UUID not found", StatusNotFound)>>

\* C9: a request with the empty identifier gets the single response 400,
\* whatever the table holds.
C9_BadRequest ==
    \A r \in Requests :
        (pc[r] # "idle" /\ uuid[r] = "")
        => /\ pc[r] = "done"
           /\ resp[r] = <<HttpError("UUID is required", StatusBadRequest)>>

C9_Witness ==
    \E r \in Requests :
        /\ pc[r] = "done"
        /\ uuid[r] = ""
        /\ Len(Mappings) >= 1
        /\ Mappings[1].UUID = ""
        /\ Mappings[1].Domain = "example.com"
        /\ resp[r] = <<HttpError("UUID is required", StatusBadRequest)>>

\* C10: a successful parseIP4P returns a port in 0..65535 and an IPv4 string
\* of four numbers in 0..255.
C10_EndpointRange ==
    (phase = "done" /\ dec.status = "ok")
    => /\ dec.port \in 0..MaxPort
       /\ Len(Split(dec.ip, ".")) = 4
       /\ \A i \in 1..4 : Split(dec.ip, ".")[i] \in OctetTexts

====
